---------------------------- MODULE Spec2Model ----------------------------
(***************************************************************************)
(* Model of src/app.js, the Employee Invitation Tool: the roster           *)
(* (employeeData), the invited list, their copies in localStorage, the     *)
(* Word template, and the handlers that change them or generate the        *)
(* per-group documents.                                                    *)
(*                                                                         *)
(* JavaScript strings are TLA+ strings, handled character by character     *)
(* with Len, SubSeq and \o.  The Arabic literals of the source are written *)
(* in a one-letter-per-letter ASCII transliteration (Buckwalter, with      *)
(* I for hamza-on-ya and c for shin):                                      *)
(*   A alef  b ba  p ta-marbuta  t ta  H ha  d dal  r ra  s sin  c shin    *)
(*   D dad  E ain  q qaf  k kaf  l lam  m mim  n nun  w waw  Y alef-maqsura*)
(*   y ya  I hamza-on-ya                                                   *)
(* so that "p" is the feminine marker the code tests with endsWith.        *)
(***************************************************************************)
EXTENDS Integers, Sequences, FiniteSets, TLC

VARIABLES employeeData,   \* app.js:30  master list of all employees
          invitedList,    \* app.js:31  employees selected for invitation
          wordTemplate,   \* app.js:32  TRUE when a template is loaded
          localStorage,   \* the two keys the program keeps in localStorage
          out,            \* what the last handler run showed and downloaded
          call            \* a direct call of one of the pure functions

vars == <<employeeData, invitedList, wordTemplate, localStorage, out, call>>

-----------------------------------------------------------------------------
(* JavaScript values and string primitives                                 *)

\* The value of a property that is absent from an object.
undefined == "<undefined>"

\* What a template literal or Array.join makes of a value.
ToStr(v) == IF v = undefined THEN "undefined" ELSE v

\* Array.prototype.join renders undefined elements as the empty string.
JoinStr(v) == IF v = undefined THEN "" ELSE v

\* a || b on string-or-undefined operands: the empty string is falsy too.
OrElse(a, b) == IF a = undefined \/ a = "" THEN b ELSE a

CharAt(s, i) == SubSeq(s, i, i)

\* String.prototype.includes
Includes(s, sub) ==
    \E i \in 1..(Len(s) - Len(sub) + 1) : SubSeq(s, i, i + Len(sub) - 1) = sub

\* String.prototype.endsWith
EndsWith(s, suf) ==
    /\ Len(s) >= Len(suf)
    /\ SubSeq(s, Len(s) - Len(suf) + 1, Len(s)) = suf

StartsWith(s, pre) ==
    /\ Len(s) >= Len(pre)
    /\ SubSeq(s, 1, Len(pre)) = pre

\* String.prototype.trim, for the blank character.
Trim(s) ==
    LET blanks == {i \in 1..Len(s) : CharAt(s, i) = " "}
        solid  == (1..Len(s)) \ blanks
    IN  IF solid = {} THEN ""
        ELSE LET lo == CHOOSE i \in solid : \A j \in solid : i <= j
                 hi == CHOOSE i \in solid : \A j \in solid : i >= j
             IN  SubSeq(s, lo, hi)

\* title.split(' ')[0]: the text before the first blank.
FirstWord(s) ==
    LET blanks == {i \in 1..Len(s) : CharAt(s, i) = " "}
    IN  IF blanks = {} THEN s
        ELSE SubSeq(s, 1, (CHOOSE i \in blanks : \A j \in blanks : i <= j) - 1)

\* String.prototype.replace(pattern, by) with a string pattern: the first
\* occurrence only.
Replace(s, pat, by) ==
    LET hits == {i \in 1..(Len(s) - Len(pat) + 1) :
                    SubSeq(s, i, i + Len(pat) - 1) = pat}
    IN  IF hits = {} THEN s
        ELSE LET at == CHOOSE i \in hits : \A j \in hits : i <= j
             IN  SubSeq(s, 1, at - 1) \o by \o SubSeq(s, at + Len(pat), Len(s))

\* Array.prototype.join
RECURSIVE Join(_, _)
Join(strs, sep) ==
    IF Len(strs) = 0 THEN ""
    ELSE IF Len(strs) = 1 THEN JoinStr(strs[1])
    ELSE JoinStr(strs[1]) \o sep \o Join(Tail(strs), sep)

\* Array.prototype.map
Map(seq, F(_)) == [i \in 1..Len(seq) |-> F(seq[i])]

-----------------------------------------------------------------------------
(* The grammar dictionary, app.js:387-393                                  *)

\* The keys in insertion order, the order of `for (const key in ...)`.
GrammarKeys ==
    << "qADy", "mstcAr", "mHAm EAm", "nAIb Alwkyl AlEAm llmlk", "nAIb wkyl Almlk" >>

jobTitleGrammar ==
    [k \in {GrammarKeys[i] : i \in 1..Len(GrammarKeys)} |->
      CASE k = "qADy" ->
             [m |-> [s |-> "AlqADy b", d |-> "AlqADyyn b", p |-> "AlqDAp b"],
              f |-> [s |-> "AlqADyp b", d |-> "AlqADytyn b", p |-> "AlqADyAt b"]]
        [] k = "mstcAr" ->
             [m |-> [s |-> "AlmstcAr b", d |-> "AlmstcAryn b", p |-> "AlmstcArwn b"],
              f |-> [s |-> "AlmstcArp b", d |-> "AlmstcArtyn b", p |-> "AlmstcArAt b"]]
        [] k = "mHAm EAm" ->
             [m |-> [s |-> "mHAm EAm", d |-> "mHAmyAn EAmAn", p |-> "mHAmwn EAmwn"],
              f |-> [s |-> "mHAmyp EAmp", d |-> "mHAmytAn EAmtAn", p |-> "mHAmyAt EAmAt"]]
        [] k = "nAIb Alwkyl AlEAm llmlk" ->
             [m |-> [s |-> " nAIb Alwkyl AlEAm llmlk ldY",
                     d |-> " nAIbA Alwkyl AlEAm llmlk ldY",
                     p |-> "nwAb Alwkyl AlEAm llmlk ldY "],
              f |-> [s |-> "nAIbp Alwkyl AlEAm llmlk ldY ",
                     d |-> "lnAIbtA Alwkyl AlEAm llmlk ldY ",
                     p |-> "nAIbAt Alwkyl AlEAm llmlk ldY "]]
        [] k = "nAIb wkyl Almlk" ->
             [m |-> [s |-> "nAIb wkyl Almlk ldY",
                     d |-> "nAIbA wkyl Almlk ldY",
                     p |-> "nwAb wkyl Almlk ldY "],
              f |-> [s |-> "nAIbp wkyl Almlk ldY ",
                     d |-> "nAIbtA wkyl Almlk ldY ",
                     p |-> "nAIbAt wkyl Almlk ldY "]]]

\* jobTitleGrammar[x] is truthy: x is a key of the dictionary.
InGrammar(x) == x \in DOMAIN jobTitleGrammar

\* app.js:409  the title is one of the entry's three feminine forms.
MatchesFeminineMutant(key, title) ==
    LET grammar == jobTitleGrammar[key]
    IN  grammar.f.s = title \/ grammar.f.p = title

MatchesFeminine(key, title) ==
    LET grammar == jobTitleGrammar[key]
    IN  grammar.f.s = title \/ grammar.f.d = title \/ grammar.f.p = title

\* app.js:400-423
findMasculineRoot(title) ==
    IF title = undefined \/ title = "" THEN ""
    ELSE IF InGrammar(title) THEN title
    ELSE LET hits == {i \in 1..Len(GrammarKeys) : MatchesFeminine(GrammarKeys[i], title)}
         IN  IF hits # {}
             THEN GrammarKeys[CHOOSE i \in hits : \A j \in hits : i <= j]
             ELSE LET firstWord == FirstWord(title)
                      masculinizedTitle ==
                          Replace(title, firstWord, SubSeq(firstWord, 1, Len(firstWord) - 1))
                  IN  IF EndsWith(firstWord, "p") /\ InGrammar(masculinizedTitle)
                      THEN masculinizedTitle
                      ELSE title

-----------------------------------------------------------------------------
(* Employee records.  Every record carries the eight properties the code    *)
(* reads; a property the JSON object lacks has the value undefined.         *)
(* employeeId is a number or a string in the JSON: [t, s] keeps its type    *)
(* and its text, so that === compares both and parseInt reads the text.     *)

Num(text) == [t |-> "number", s |-> text]
Str(text) == [t |-> "string", s |-> text]
NoId == [t |-> "undefined", s |-> "undefined"]

Emp(id, name, g, title, post, wl, div, c) ==
    [employeeId |-> id, fullName |-> name, gender |-> g, jobTitle |-> title,
     postResponsibility |-> post, workLocation |-> wl, division |-> div, city |-> c]

\* parseInt yields NaN, which equals nothing, itself included.
NaN == -1

DigitVal(c) ==
    CASE c = "0" -> 0 [] c = "1" -> 1 [] c = "2" -> 2 [] c = "3" -> 3
      [] c = "4" -> 4 [] c = "5" -> 5 [] c = "6" -> 6 [] c = "7" -> 7
      [] c = "8" -> 8 [] c = "9" -> 9 [] OTHER -> NaN

\* The value of the longest prefix of digits of s, read after acc.
RECURSIVE DigitsValue(_, _)
DigitsValue(s, acc) ==
    IF Len(s) = 0 \/ DigitVal(Head(s)) = NaN THEN acc
    ELSE DigitsValue(Tail(s), 10 * acc + DigitVal(Head(s)))

\* Leading blanks removed (parseInt skips them).
RECURSIVE SkipBlanks(_)
SkipBlanks(s) == IF Len(s) > 0 /\ Head(s) = " " THEN SkipBlanks(Tail(s)) ELSE s

\* parseInt(id, 10) of an employeeId value
parseInt(id) ==
    LET text == SkipBlanks(id.s)
    IN  IF Len(text) = 0 \/ DigitVal(Head(text)) = NaN THEN NaN
        ELSE DigitsValue(text, 0)

\* parseInt(a, 10) === parseInt(b, 10)
SameId(a, b) == parseInt(a) # NaN /\ parseInt(b) # NaN /\ parseInt(a) = parseInt(b)

-----------------------------------------------------------------------------
(* processGroupData, app.js:431-526                                        *)

males(employees) == SelectSeq(employees, LAMBDA e : e.gender = "Alsyd")
\* app.js:433, taking every employee who is not male for a female.
femalesMutant(employees) == SelectSeq(employees, LAMBDA e : e.gender # "Alsyd")

females(employees) == SelectSeq(employees, LAMBDA e : e.gender = "Alsydp")

FullNames(employees) == Map(employees, LAMBDA e : e.fullName)

\* app.js:438
MaleHonorific(n) == IF n = 1 THEN "Alsyd" ELSE IF n = 2 THEN "Alsydyn" ELSE "AlsAdp"

\* app.js:446
FemaleHonorificMutant(n) == IF n = 1 THEN "Alsydp" ELSE "AlsydAt"

FemaleHonorific(n) == IF n = 1 THEN "Alsydp" ELSE IF n = 2 THEN "Alsydtyn" ELSE "AlsydAt"

\* app.js:436-441, 452-453
maleCollectiveTitle(employees) ==
    LET ms == males(employees)
    IN  IF Len(ms) > 0
        THEN "b" \o MaleHonorific(Len(ms)) \o " " \o Join(FullNames(ms), " w ")
        ELSE ""

\* app.js:444-449, 454-461
femaleCollectiveTitle(employees) ==
    LET ms   == males(employees)
        fs   == females(employees)
        base == IF Len(fs) > 0
                THEN FemaleHonorific(Len(fs)) \o " " \o Join(FullNames(fs), " w ")
                ELSE ""
        pre  == IF Len(ms) = 0 /\ Len(fs) > 0 THEN "b" \o base ELSE base
    IN  IF Len(ms) > 0 /\ Len(fs) > 0 THEN " w " \o pre ELSE pre

\* app.js:463-474
computedVarMutant(employees) ==
    LET totalCount == Len(employees)
        ms == males(employees)
    IN  IF totalCount = 1
        THEN (IF Len(ms) = 1 THEN "AlmEny" ELSE "AlmEnyp")
        ELSE IF totalCount = 2 THEN "AlmEnyyn"
        ELSE (IF Len(ms) > 0 THEN "AlmEnyyn" ELSE "AlmEnyAt")

computedVar(employees) ==
    LET totalCount == Len(employees)
        ms == males(employees)
        fs == females(employees)
    IN  IF totalCount = 1
        THEN (IF Len(ms) = 1 THEN "AlmEny" ELSE "AlmEnyp")
        ELSE IF totalCount = 2
        THEN (IF Len(ms) = 2 THEN "AlmEnyyn"
              ELSE IF Len(fs) = 2 THEN "AlmEnytyn"
              ELSE "AlmEnyyn")
        ELSE (IF Len(ms) > 0 THEN "AlmEnyyn" ELSE "AlmEnyAt")

\* app.js:481
representativeTitleMutant(employees) == OrElse(employees[1].jobTitle, "")

representativeTitle(employees) == Trim(OrElse(employees[1].jobTitle, ""))

\* app.js:479-510
combinedJobTitle(employees) ==
    IF Len(employees) > 0
    THEN LET root == findMasculineRoot(representativeTitle(employees))
         IN  IF InGrammar(root)
             THEN LET grammarSet == jobTitleGrammar[root]
                      groupMaleCount == Len(males(employees))
                      groupFemaleCount == Len(females(employees))
                      groupTotalCount == Len(employees)
                  IN  IF groupTotalCount = 1
                      THEN (IF groupMaleCount = 1 THEN grammarSet.m.s ELSE grammarSet.f.s)
                      ELSE IF groupTotalCount = 2
                      THEN (IF groupFemaleCount = 2 THEN grammarSet.f.d ELSE grammarSet.m.d)
                      ELSE IF groupTotalCount > 2
                      THEN (IF groupMaleCount > 0 THEN grammarSet.m.p ELSE grammarSet.f.p)
                      ELSE OrElse(root, "")
             ELSE OrElse(representativeTitle(employees), "")
    ELSE ""

\* app.js:516-523
collective_title(maleTitle, femaleTitle) ==
    IF femaleTitle # ""
    THEN (IF maleTitle # "" THEN maleTitle \o femaleTitle ELSE femaleTitle)
    ELSE maleTitle

processGroupData(employees) ==
    [city                  |-> IF Len(employees) > 0 THEN employees[1].city ELSE "",
     maleCollectiveTitle   |-> maleCollectiveTitle(employees),
     femaleCollectiveTitle |-> femaleCollectiveTitle(employees),
     computedVar           |-> computedVar(employees),
     combinedJobTitle      |-> combinedJobTitle(employees),
     invitees_names        |-> Join(FullNames(employees), " w "),
     collective_title      |-> collective_title(maleCollectiveTitle(employees),
                                                femaleCollectiveTitle(employees))]

-----------------------------------------------------------------------------
(* Persistence, app.js:48-67.  JSON.stringify drops the properties whose   *)
(* value is undefined; reading a dropped property back yields undefined.   *)

Fields ==
    {"employeeId", "fullName", "gender", "jobTitle", "postResponsibility",
     "workLocation", "division", "city"}

Absent(f, v) == IF f = "employeeId" THEN v = NoId ELSE v = undefined

Stringify(list) ==
    [i \in 1..Len(list) |->
        [f \in {g \in Fields : ~Absent(g, list[i][g])} |-> list[i][f]]]

Parse(text) ==
    [i \in 1..Len(text) |->
        [f \in Fields |->
            IF f \in DOMAIN text[i] THEN text[i][f]
            ELSE IF f = "employeeId" THEN NoId ELSE undefined]]

\* data ? JSON.parse(data) : []
LoadItem(item) == IF item.set THEN Parse(item.value) ELSE <<>>

-----------------------------------------------------------------------------
(* Grouping, app.js:174-186 and 546-558                                    *)

GroupKey(emp) ==
    OrElse(emp.workLocation, "N/A") \o "_" \o OrElse(emp.division, "N/A")
        \o "_" \o OrElse(emp.city, "N/A")

\* acc[key].employees.push(emp), with the bug of assigning [emp] instead.
PushMemberMutant(group, emp) == [group EXCEPT !.employees = <<emp>>]

PushMember(group, emp) == [group EXCEPT !.employees = Append(@, emp)]

\* The reduce: the groups in the order their keys were first seen, which is
\* the order `for (const key in groupedEmployees)` visits them.
RECURSIVE GroupReduce(_, _)
GroupReduce(acc, list) ==
    IF list = <<>> THEN acc
    ELSE LET emp  == Head(list)
             key  == GroupKey(emp)
             at   == {g \in 1..Len(acc) : acc[g].key = key}
             made == IF at = {}
                     THEN Append(acc, [key |-> key,
                                       workLocation |-> emp.workLocation,
                                       division |-> emp.division,
                                       city |-> emp.city,
                                       employees |-> <<>>])
                     ELSE acc
             g    == CHOOSE h \in 1..Len(made) : made[h].key = key
         IN  GroupReduce([made EXCEPT ![g] = PushMember(@, emp)], Tail(list))

groupedEmployees(list) == GroupReduce(<<>>, list)

-----------------------------------------------------------------------------
(* The generation pass, app.js:531-613                                     *)

\* app.js:253-257
isResponsible(employee) ==
    IF employee.postResponsibility = undefined \/ employee.postResponsibility = ""
    THEN FALSE
    ELSE LET title == Trim(employee.postResponsibility)
         IN  \/ Includes(title, "rIys") \/ Includes(title, "rIysp")
             \/ Includes(title, "wkyl") \/ Includes(title, "wkylp")

\* app.js:564-567, taking the last match of the roster instead of the first.
responsiblePersonMutant(roster, group) ==
    LET hits == {i \in 1..Len(roster) :
                    /\ roster[i].workLocation = group.workLocation
                    /\ roster[i].division = group.division
                    /\ roster[i].city = group.employees[1].city
                    /\ isResponsible(roster[i])}
    IN  IF hits = {} THEN 0 ELSE CHOOSE i \in hits : \A j \in hits : i >= j

\* app.js:564-567  the index in the roster of the first match, 0 when none.
responsiblePerson(roster, group) ==
    LET hits == {i \in 1..Len(roster) :
                    /\ roster[i].workLocation = group.workLocation
                    /\ roster[i].division = group.division
                    /\ roster[i].city = group.employees[1].city
                    /\ isResponsible(roster[i])}
    IN  IF hits = {} THEN 0 ELSE CHOOSE i \in hits : \A j \in hits : i <= j

\* app.js:569-573
responsibilityLine(roster, group) ==
    LET rp == responsiblePerson(roster, group)
    IN  IF rp = 0 THEN ""
        ELSE (IF roster[rp].gender = "Alsydp" THEN "Alsydp" ELSE "Alsyd")
                \o " " \o ToStr(roster[rp].jobTitle)

\* app.js:575  null when there is no responsible person.
NullId == [t |-> "null", s |-> "null"]

responsiblePersonId(roster, group) ==
    LET rp == responsiblePerson(roster, group)
    IN  IF rp = 0 THEN NullId ELSE roster[rp].employeeId

\* app.js:576, with the filter left out.
filteredEmployeesMutant(employees, id) == employees

\* app.js:576  e.employeeId !== responsiblePersonId
filteredEmployees(employees, id) == SelectSeq(employees, LAMBDA e : e.employeeId # id)

\* app.js:578-589, 601-602  the data set on the template and the file name.
GroupDocument(roster, group) ==
    LET members       == filteredEmployees(group.employees, responsiblePersonId(roster, group))
        processedData == processGroupData(members)
    IN  [key  |-> group.key,
         name |-> ToStr(OrElse(processedData.city, "N/A")) \o "-"
                    \o ToStr(group.workLocation) \o "-" \o ToStr(group.division) \o ".docx",
         data |-> [workLocation          |-> group.workLocation,
                   division              |-> group.division,
                   employees             |-> members,
                   responsibilityLine    |-> responsibilityLine(roster, group),
                   city                  |-> processedData.city,
                   maleCollectiveTitle   |-> processedData.maleCollectiveTitle,
                   femaleCollectiveTitle |-> processedData.femaleCollectiveTitle,
                   computedVar           |-> processedData.computedVar,
                   combinedJobTitle      |-> processedData.combinedJobTitle,
                   invitees_names        |-> processedData.invitees_names,
                   collective_title      |-> processedData.collective_title]]

\* app.js:591-606, with the download placed before doc.render().
downloadedMutant(documents, failAt) ==
    IF failAt = 0 THEN documents ELSE SubSeq(documents, 1, failAt)

\* app.js:591-606  the documents downloaded when the renderer throws at
\* group failAt (0: it never throws): doc.render() precedes a.click().
downloaded(documents, failAt) ==
    IF failAt = 0 THEN documents ELSE SubSeq(documents, 1, failAt - 1)

-----------------------------------------------------------------------------
(* The state after construction, app.js:29-32 and 616-617, with nothing in *)
(* localStorage yet.                                                       *)

NoItem == [set |-> FALSE, value |-> <<>>]

NoCall == [fn |-> "none", arg |-> <<>>, rets |-> <<>>]

NoOut == [alert |-> "", docs |-> <<>>, failedKey |-> ""]

AppInit ==
    /\ employeeData = <<>>
    /\ invitedList = <<>>
    /\ wordTemplate = FALSE
    /\ localStorage = [employeeData |-> NoItem, invitedListData |-> NoItem]
    /\ out = NoOut

appVars == <<employeeData, invitedList, wordTemplate, localStorage, out>>

-----------------------------------------------------------------------------
(* The inputs of the handlers: the rosters a JSON file may hold, the rows  *)
(* of an Excel file, the messages of a failing renderer.                   *)

MaxInvited == 2

\* Six employees: two responsible persons of one location (the second and
\* the third record), a record without a gender (the third), two whose
\* locations differ but join to the same key, a record without an
\* identifier.
RosterA ==
    << Emp(Num("1"), "N1", "Alsyd",   "qADy",      "",              "L",   "D",   "C"),
       Emp(Str("2"), "N2", "Alsydp",  "AlqADyp b", "rIysp AlmHkmp", "L",   "D",   "C"),
       Emp(Num("3"), "N3", undefined, "mstcAr",    " wkyl ",        "L",   "D",   "C"),
       Emp(Num("4"), "N4", "Alsydp",  " mdyr ",    "",              "a_b", "c",   "C"),
       Emp(Num("5"), "N5", "Alsyd",   "mdyr",      undefined,       "a",   "b_c", "C"),
       Emp(NoId,     "N6", "Alsyd",   "qADy",      "",              "L",   "D",   "C") >>

\* A later roster: employee 1 with the identifier as a string and a
\* responsibility, an employee with no division, and an employee whose
\* identifier is 0; employees 2 to 5 are gone.
RosterB ==
    << Emp(Str("1"), "N1", "Alsyd",   "qADy",      "wkyl Almlk",    "L",   "D",   "C"),
       Emp(Num("8"), "N8", "Alsyd",   "mdyr",      "",              "L2",  undefined, "C2"),
       Emp(Num("0"), "N0", "Alsydp",  "mdyr",      "",              "L2",  undefined, "C2") >>

Rosters == {RosterA, RosterB}

\* The identifiers a search result or a delete button can carry.
AllIds == UNION {{r[i].employeeId : i \in 1..Len(r)} : r \in Rosters}

\* String(id): what the data-employee-id attribute holds.
AsText(id) == Str(id.s)

\* The Excel files: each the first cells of its rows, an identifier typed
\* as a number or as text (with a blank before it), known to a roster or
\* not, the number 0, or an empty cell.
ExcelFiles ==
    { <<>>,
      << Num("0"), Num("8") >>,
      << NoId >>,
      << Num("9") >>,
      << Str(" 1") >>,
      << Num("2"), Str(" 1") >>,
      << Num("2"), NoId, Num("2") >>,
      << Str(" 1"), Num("2"), Num("1") >>,
      << Num("8"), Num("9"), Str("1") >> }

ErrorMessages == {"Multi error", "Unclosed tag"}

Shown(alert) == [alert |-> alert, docs |-> <<>>, failedKey |-> ""]

-----------------------------------------------------------------------------
(* The handlers                                                            *)

\* app.js:65-67
saveInvitedList(list) ==
    [localStorage EXCEPT !.invitedListData = [set |-> TRUE, value |-> Stringify(list)]]

\* app.js:74-96  kind: a file with an employees array, a JSON file without
\* one, a file that is no JSON.
JsonUpload ==
    \E kind \in {"employees", "other", "broken"}, roster \in Rosters :
        /\ IF kind = "employees"
           THEN /\ localStorage' = [localStorage EXCEPT !.employeeData =
                                      [set |-> TRUE, value |-> Stringify(roster)]]
                /\ employeeData' = LoadItem(localStorage'.employeeData)
                /\ out' = Shown("roster loaded")
           ELSE /\ UNCHANGED <<localStorage, employeeData>>
                /\ out' = Shown(IF kind = "other" THEN "invalid roster file"
                                ELSE "roster file unreadable")
        /\ UNCHANGED <<invitedList, wordTemplate, call>>

\* app.js:222, comparing the identifiers as they are, without parseInt.
AlreadyInvitedMutant(list, employeeId) ==
    \E i \in 1..Len(list) : list[i].employeeId = employeeId

\* parseInt(emp.employeeId, 10) === parseInt(employeeId, 10) for some emp
AlreadyInvited(list, employeeId) ==
    \E i \in 1..Len(list) : SameId(list[i].employeeId, employeeId)

\* employeeData.find(...): the index of the first match, 0 when none.
FindEmployee(roster, employeeId) ==
    LET hits == {i \in 1..Len(roster) : SameId(roster[i].employeeId, employeeId)}
    IN  IF hits = {} THEN 0 ELSE CHOOSE i \in hits : \A j \in hits : i <= j

\* app.js:219-236
addToInvitedList ==
    \E employeeId \in AllIds :
        LET at == FindEmployee(employeeData, employeeId)
        IN  /\ IF at # 0 /\ ~AlreadyInvited(invitedList, employeeId)
               THEN /\ Len(invitedList) < MaxInvited
                    /\ invitedList' = Append(invitedList, employeeData[at])
                    /\ localStorage' = saveInvitedList(invitedList')
                    /\ out' = Shown("")
               ELSE /\ UNCHANGED <<invitedList, localStorage>>
                    /\ out' = Shown(IF at = 0 THEN "employee not found"
                                    ELSE "already invited")
            /\ UNCHANGED <<employeeData, wordTemplate, call>>

\* app.js:242-246, called by the delete button of an invited employee
\* (app.js:260-265) with the text of its identifier.
removeFromInvitedList ==
    \E i \in 1..Len(invitedList) :
        LET employeeId == AsText(invitedList[i].employeeId)
        IN  /\ invitedList' = SelectSeq(invitedList,
                                LAMBDA emp : ~SameId(emp.employeeId, employeeId))
            /\ localStorage' = saveInvitedList(invitedList')
            /\ out' = Shown("")
            /\ UNCHANGED <<employeeData, wordTemplate, call>>

\* app.js:270-277
ClearAll ==
    \E confirmed \in BOOLEAN :
        /\ Len(invitedList) > 0
        /\ IF confirmed
           THEN /\ invitedList' = <<>>
                /\ localStorage' = saveInvitedList(invitedList')
                /\ out' = Shown("list cleared")
           ELSE /\ UNCHANGED <<invitedList, localStorage>>
                /\ out' = Shown("")
        /\ UNCHANGED <<employeeData, wordTemplate, call>>

\* app.js:310  if (employeeId): an empty cell, the number 0 and the empty
\* text are skipped.
Truthy(employeeId) ==
    /\ employeeId # NoId
    /\ employeeId # Num("0")
    /\ employeeId # Str("")

\* app.js:306-320  the roster employees the rows name, each once.
RECURSIVE employeesToAdd(_, _, _)
employeesToAdd(roster, rows, pending) ==
    IF rows = <<>> THEN pending
    ELSE LET employeeId == Head(rows)
             at == FindEmployee(roster, employeeId)
         IN  IF Truthy(employeeId) /\ at # 0 /\ ~AlreadyInvited(pending, employeeId)
             THEN employeesToAdd(roster, Tail(rows), Append(pending, roster[at]))
             ELSE employeesToAdd(roster, Tail(rows), pending)

\* app.js:299-341  the rows are read and, when they name roster employees,
\* the user is asked.
ExcelRead(rows, confirmed) ==
    LET toAdd == employeesToAdd(employeeData, rows, <<>>)
    IN  /\ IF Len(toAdd) > 0 /\ confirmed
           THEN /\ invitedList' = toAdd
                /\ localStorage' = saveInvitedList(invitedList')
                /\ out' = Shown("list replaced")
           ELSE /\ UNCHANGED <<invitedList, localStorage>>
                /\ out' = Shown(IF Len(toAdd) = 0 THEN "no valid employee in file"
                                ELSE "replacement cancelled")
        /\ UNCHANGED <<employeeData, wordTemplate, call>>

\* app.js:287-350  the library is missing or XLSX.read throws; or the rows
\* are read.
ExcelUpload ==
    \/ /\ \E failure \in {"excel library missing", "excel processing failed"} :
              out' = Shown(failure)
       /\ UNCHANGED <<invitedList, localStorage, employeeData, wordTemplate, call>>
    \/ \E rows \in ExcelFiles, confirmed \in BOOLEAN : ExcelRead(rows, confirmed)

\* app.js:353-384  with a file, or with the selection cancelled.
WordTemplateUpload ==
    \E file \in BOOLEAN :
        /\ wordTemplate' = file
        /\ out' = Shown(IF file THEN "template loaded" ELSE "")
        /\ UNCHANGED <<employeeData, invitedList, localStorage, call>>

\* app.js:531-613  failAt: the group at which the renderer throws, 0 when
\* it never does; message: the message of the error it throws.
GenerateWord ==
    /\ \/ /\ ~wordTemplate
          /\ out' = Shown("load a template first")
       \/ /\ wordTemplate /\ Len(invitedList) = 0
          /\ out' = Shown("the list is empty")
       \/ /\ wordTemplate /\ Len(invitedList) > 0
          /\ out' = Shown("document libraries missing")
       \/ /\ wordTemplate /\ Len(invitedList) > 0
          /\ LET groups    == groupedEmployees(invitedList)
                 documents == [g \in 1..Len(groups) |->
                                  GroupDocument(employeeData, groups[g])]
             IN  \E failAt \in 0..Len(groups) :
                    \/ /\ failAt = 0
                       /\ out' = [alert |-> "documents generated",
                                  docs |-> downloaded(documents, 0),
                                  failedKey |-> ""]
                    \/ /\ failAt > 0
                       /\ \E message \in ErrorMessages :
                            out' = [alert |-> "generation failed: " \o message,
                                    docs |-> downloaded(documents, failAt),
                                    failedKey |-> groups[failAt].key]
    /\ UNCHANGED <<employeeData, invitedList, wordTemplate, localStorage, call>>

\* The page is loaded again, app.js:8, 29-32, 616-617.
Reload ==
    /\ employeeData' = LoadItem(localStorage.employeeData)
    /\ invitedList' = LoadItem(localStorage.invitedListData)
    /\ wordTemplate' = FALSE
    /\ out' = Shown("")
    /\ UNCHANGED <<localStorage, call>>

-----------------------------------------------------------------------------
(* The program: any handler, any number of times.                         *)

Init == AppInit /\ call = NoCall

Next ==
    \/ JsonUpload
    \/ addToInvitedList
    \/ removeFromInvitedList
    \/ ClearAll
    \/ ExcelUpload
    \/ WordTemplateUpload
    \/ GenerateWord
    \/ Reload

Spec == Init /\ [][Next]_vars

-----------------------------------------------------------------------------
(* Direct calls of findMasculineRoot: each title is normalised, and the    *)
(* result normalised again, up to MaxApply times.                          *)

MaxApply == 2

AllForms(key) ==
    LET g == jobTitleGrammar[key]
    IN  {g.m.s, g.m.d, g.m.p, g.f.s, g.f.d, g.f.p}

FeminineForms(key) ==
    LET g == jobTitleGrammar[key]
    IN  {g.f.s, g.f.d, g.f.p}

\* Titles that are in no entry: plain feminines, blanks around a key, others.
OtherTitles ==
    { "", "mdyr", "mdyrp", " mdyr ", "qADyp", "mstcArp", "mHAmyp EAm",
      "nAIbp wkyl Almlk", "nAIbp Alwkyl AlEAm llmlk", " qADy", "qADy ",
      "nAIbp wkyl Almlk ldY", "kAtb DbT", "kAtbp DbT", "p qADy" }

TitleInputs ==
    DOMAIN jobTitleGrammar
      \cup UNION {AllForms(k) : k \in DOMAIN jobTitleGrammar}
      \cup OtherTitles

InitNormalize ==
    /\ AppInit
    /\ call \in {[fn |-> "findMasculineRoot", arg |-> t, rets |-> <<>>] : t \in TitleInputs}

CallFindMasculineRoot ==
    /\ call.fn = "findMasculineRoot"
    /\ Len(call.rets) < MaxApply
    /\ call' = [call EXCEPT !.rets =
                  Append(@, findMasculineRoot(IF @ = <<>> THEN call.arg ELSE @[Len(@)]))]
    /\ UNCHANGED appVars

NextNormalize == CallFindMasculineRoot

SpecNormalize == InitNormalize /\ [][NextNormalize]_vars

-----------------------------------------------------------------------------
(* Direct calls of processGroupData on every list of at most MaxGroup      *)
(* distinct records of a pool of employees of one location.                *)

MaxGroup == 3

GroupPool ==
    { Emp(Num("1"), "N1", "Alsyd",   "qADy",              "", "L", "D", "C"),
      Emp(Num("2"), "N2", "Alsydp",  "AlqADyp b",         "", "L", "D", "C"),
      Emp(Num("3"), "N3", "Alsydp",  " mdyr ",            "", "L", "D", "C"),
      Emp(Num("4"), "N4", "Alsydp",  "nAIbp wkyl Almlk",  "", "L", "D", "C"),
      Emp(Num("5"), "N5", "Alsyd",   undefined,           "", "L", "D", "C"),
      Emp(Num("6"), "N6", undefined, "mstcAr",            "", "L", "D", "C"),
      Emp(Num("7"), "N7", "Alsyd",   "mdyr",              "", "L", "D", "C"),
      Emp(Num("8"), "N8", "Alsydp",  "nAIbp wkyl Almlk ldY ", "", "L", "D", "C") }

\* The lists of length at most n of distinct elements of S.
ListsOf(S, n) ==
    UNION {{l \in [1..k -> S] : \A i, j \in 1..k : i # j => l[i] # l[j]} : k \in 0..n}

InitResolve ==
    /\ AppInit
    /\ call \in {[fn |-> "processGroupData", arg |-> l, rets |-> <<>>] :
                    l \in ListsOf(GroupPool, MaxGroup)}

CallProcessGroupData ==
    /\ call.fn = "processGroupData"
    /\ call.rets = <<>>
    /\ call' = [call EXCEPT !.rets = <<processGroupData(call.arg)>>]
    /\ UNCHANGED appVars

NextResolve == CallProcessGroupData

SpecResolve == InitResolve /\ [][NextResolve]_vars

\* A call of fn has returned.
Returned(fn) == call.fn = fn /\ call.rets # <<>>

-----------------------------------------------------------------------------
(* C7  Normalizer law: findMasculineRoot applied to any feminine form      *)
(* (singular, dual, plural) of a dictionary entry returns that entry's     *)
(* key; applied to a key it returns the key; and for those inputs a second *)
(* application returns what the first returned.                            *)
C7_NormalizerLaw ==
    Returned("findMasculineRoot") =>
        /\ \A k \in DOMAIN jobTitleGrammar :
              call.arg \in FeminineForms(k) => call.rets[1] = k
        /\ call.arg \in DOMAIN jobTitleGrammar => call.rets[1] = call.arg
        /\ (/\ Len(call.rets) >= 2
            /\ \/ call.arg \in DOMAIN jobTitleGrammar
               \/ \E k \in DOMAIN jobTitleGrammar : call.arg \in FeminineForms(k))
           => call.rets[2] = call.rets[1]

\* A feminine dual form that is no key was normalised, twice, to its root.
C7_Witness ==
    /\ Returned("findMasculineRoot")
    /\ call.arg = "lnAIbtA Alwkyl AlEAm llmlk ldY "
    /\ call.rets = << "nAIb Alwkyl AlEAm llmlk", "nAIb Alwkyl AlEAm llmlk" >>

-----------------------------------------------------------------------------
(* Claims about processGroupData, read off a returned call.                *)

Males(es) == {i \in 1..Len(es) : es[i].gender = "Alsyd"}
Females(es) == {i \in 1..Len(es) : es[i].gender = "Alsydp"}

\* The dictionary key the first member's title resolves to, "" when none:
\* the title is read without the blanks around it.
EntryOf(es) ==
    LET root == findMasculineRoot(Trim(OrElse(es[1].jobTitle, "")))
    IN  IF root \in DOMAIN jobTitleGrammar THEN root ELSE ""

\* The pronoun and, when the first member's title has an entry, the job
\* title of the group are the given forms.
Agrees(es, r, pronoun, gender, number) ==
    /\ r.computedVar = pronoun
    /\ EntryOf(es) # "" => r.combinedJobTitle = jobTitleGrammar[EntryOf(es)][gender][number]

(* C5  Count/gender agreement: one member: the singular honorific, pronoun *)
(* and title form of that member's gender; two members: the feminine dual  *)
(* pronoun and title form when both are female, the masculine dual ones    *)
(* otherwise; more than two: the masculine plural forms when a male is     *)
(* present, the feminine plural forms when none is.                        *)
C5_AgreementLaw ==
    Returned("processGroupData") =>
        LET es == call.arg
            r  == call.rets[1]
            n  == Len(es)
        IN  /\ (n = 1 /\ Males(es) = {1}) =>
                  /\ Agrees(es, r, "AlmEny", "m", "s")
                  /\ StartsWith(r.collective_title, "bAlsyd ")
            /\ (n = 1 /\ Females(es) = {1}) =>
                  /\ Agrees(es, r, "AlmEnyp", "f", "s")
                  /\ StartsWith(r.collective_title, "bAlsydp ")
            /\ (n = 2 /\ Females(es) = {1, 2}) => Agrees(es, r, "AlmEnytyn", "f", "d")
            /\ (n = 2 /\ Females(es) # {1, 2}) => Agrees(es, r, "AlmEnyyn", "m", "d")
            /\ (n > 2 /\ Males(es) # {}) => Agrees(es, r, "AlmEnyyn", "m", "p")
            /\ (n > 2 /\ Males(es) = {}) => Agrees(es, r, "AlmEnyAt", "f", "p")

\* Two females whose first title is a feminine form of an entry got the
\* feminine dual pronoun and the entry's feminine dual title.
C5_Witness ==
    /\ Returned("processGroupData")
    /\ Len(call.arg) = 2
    /\ Females(call.arg) = {1, 2}
    /\ call.arg[1].jobTitle = "AlqADyp b"
    /\ call.rets[1].computedVar = "AlmEnytyn"
    /\ call.rets[1].combinedJobTitle = "AlqADytyn b"

\* The names of the members at the indices idx, in group order, joined.
RECURSIVE NamesOf(_, _, _)
NamesOf(es, idx, from) ==
    IF from > Len(es) THEN ""
    ELSE LET rest == NamesOf(es, idx, from + 1)
         IN  IF from \notin idx THEN rest
             ELSE IF rest = "" THEN es[from].fullName
             ELSE es[from].fullName \o " w " \o rest

HonorificOf(gender, size) ==
    IF gender = "m"
    THEN (CASE size = 1 -> "Alsyd" [] size = 2 -> "Alsydyn" [] OTHER -> "AlsAdp")
    ELSE (CASE size = 1 -> "Alsydp" [] size = 2 -> "Alsydtyn" [] OTHER -> "AlsydAt")

\* The composition of collective_title from the two gender partitions.
Composed(es, r) ==
    LET M == Males(es)
        F == Females(es)
        maleSegment   == "b" \o HonorificOf("m", Cardinality(M)) \o " " \o NamesOf(es, M, 1)
        femaleSegment == HonorificOf("f", Cardinality(F)) \o " " \o NamesOf(es, F, 1)
    IN  /\ r.collective_title = r.maleCollectiveTitle \o r.femaleCollectiveTitle
        /\ r.maleCollectiveTitle = IF M = {} THEN "" ELSE maleSegment
        /\ r.femaleCollectiveTitle =
              IF F = {} THEN ""
              ELSE IF M = {} THEN "b" \o femaleSegment
              ELSE " w " \o femaleSegment
        /\ StartsWith(r.femaleCollectiveTitle, " w ") <=> (M # {} /\ F # {})

\* C6 as stated: the composition, and for every non-empty group the
\* collective title starts with the one preposition prefix.
C6_AsStated ==
    Returned("processGroupData") =>
        /\ Composed(call.arg, call.rets[1])
        /\ Len(call.arg) > 0 => StartsWith(call.rets[1].collective_title, "b")

(* C6  collective_title is the male segment followed by the female         *)
(* segment, empty segments skipped; each segment is the honorific of its   *)
(* partition's size (1, 2, more) and the partition's full names in group   *)
(* order; the female segment carries the connector exactly when both       *)
(* partitions are non-empty; and for every group with at least one male or *)
(* female member the collective title starts with the preposition prefix,  *)
(* applied once, to the first non-empty segment.                           *)
C6_Composition ==
    Returned("processGroupData") =>
        /\ Composed(call.arg, call.rets[1])
        /\ (Males(call.arg) \cup Females(call.arg) # {}) =>
              /\ StartsWith(call.rets[1].collective_title, "b")
              /\ ~StartsWith(call.rets[1].femaleCollectiveTitle, "b")
                   \/ Males(call.arg) = {}

\* One male and two females: a prefixed male segment and a connected
\* female segment with the dual honorific.
C6_Witness ==
    /\ Returned("processGroupData")
    /\ Len(call.arg) = 3
    /\ Cardinality(Males(call.arg)) = 1
    /\ Cardinality(Females(call.arg)) = 2
    /\ StartsWith(call.rets[1].collective_title, "bAlsyd ")
    /\ StartsWith(call.rets[1].femaleCollectiveTitle, " w Alsydtyn ")

\* The first member's title resolves to no dictionary entry.
NoEntry(es) == Len(es) > 0 /\ EntryOf(es) = ""

-----------------------------------------------------------------------------
(* Claims about the generation pass, read off the state the handler leaves *)
(* (it changes neither the roster nor the invited list): out.docs[i] is    *)
(* the document of the i-th group.                                         *)

Failed == StartsWith(out.alert, "generation failed: ")

Generated == out.alert = "documents generated" \/ Failed

Groups == groupedEmployees(invitedList)

Members(list) == {list[j] : j \in 1..Len(list)}

\* The roster record of the responsible person of group g, when there is one.
HasResponsible(g) == responsiblePerson(employeeData, Groups[g]) # 0
Responsible(g) == employeeData[responsiblePerson(employeeData, Groups[g])]

PlacesOf(emp) ==
    {p \in UNION {{<<g, j>> : j \in 1..Len(Groups[g].employees)} : g \in 1..Len(Groups)} :
        Groups[p[1]].employees[p[2]] = emp}

(* C2  The grouping is a partition of the invited list by identifier: each *)
(* invited employee is at exactly one place of exactly one group, and no   *)
(* employeeId, compared as a number, is in two different groups.           *)
C2_Partition ==
    /\ \A k \in 1..Len(invitedList) : Cardinality(PlacesOf(invitedList[k])) = 1
    /\ \A g, h \in 1..Len(Groups) : g # h =>
          \A j \in 1..Len(Groups[g].employees), k \in 1..Len(Groups[h].employees) :
              ~SameId(Groups[g].employees[j].employeeId, Groups[h].employees[k].employeeId)

\* Documents were generated for two employees placed in one group.
C2_Witness ==
    /\ out.alert = "documents generated"
    /\ Len(invitedList) = 2
    /\ Len(Groups) = 1
    /\ Len(Groups[1].employees) = 2

\* (workLocation, division, city), an absent component replaced by N/A.
Triple(emp) ==
    << IF emp.workLocation = undefined THEN "N/A" ELSE emp.workLocation,
       IF emp.division = undefined THEN "N/A" ELSE emp.division,
       IF emp.city = undefined THEN "N/A" ELSE emp.city >>

\* C3 as stated: two invited employees are in the same group if and only
\* if their (workLocation, division, city) triples, absent components
\* replaced by N/A, are equal component by component.
C3_AsStated ==
    \A i, k \in 1..Len(invitedList) :
        (\E g \in 1..Len(Groups) :
            {invitedList[i], invitedList[k]} \subseteq Members(Groups[g].employees))
        <=> Triple(invitedList[i]) = Triple(invitedList[k])

\* C4 as stated: a document made from an empty member list has every text
\* field empty.
C4_AsStated ==
    Generated =>
        \A g \in 1..Len(out.docs) :
            LET d == out.docs[g].data
            IN  d.employees = <<>> =>
                  /\ d.city = ""
                  /\ d.maleCollectiveTitle = ""
                  /\ d.femaleCollectiveTitle = ""
                  /\ d.collective_title = ""
                  /\ d.computedVar = ""
                  /\ d.combinedJobTitle = ""
                  /\ d.invitees_names = ""

Malformed(emp) ==
    \/ parseInt(emp.employeeId) = NaN
    \/ emp.gender \notin {"Alsyd", "Alsydp"}

\* C9 as stated: a record without an identifier or without one of the two
\* genders is in no document's member list.
C9_AsStated ==
    Generated =>
        \A g \in 1..Len(out.docs) :
            \A m \in Members(out.docs[g].data.employees) : ~Malformed(m)

(* C9  A record without an identifier never enters the invited list.  A    *)
(* record whose gender is neither honorific is not excluded from grouping: *)
(* unless it is the group's responsible person it is in the member list of *)
(* its group's document, counted in it and named in invitees_names; it is  *)
(* left out of collective_title only.  A pass whose renderer does not fail *)
(* makes a document for every group.                                       *)
C9_MalformedKept ==
    /\ \A k \in 1..Len(invitedList) : parseInt(invitedList[k].employeeId) # NaN
    /\ out.alert = "documents generated" =>
          /\ Len(out.docs) = Len(Groups)
          /\ \A g \in 1..Len(Groups) :
                LET d == out.docs[g].data
                IN  \A m \in Members(Groups[g].employees) :
                       (/\ m.gender \notin {"Alsyd", "Alsydp"}
                        /\ HasResponsible(g) => m.employeeId # Responsible(g).employeeId)
                       => /\ m \in Members(d.employees)
                          /\ Len(d.employees) >= 1
                          /\ Includes(d.invitees_names, m.fullName)
                          /\ ~Includes(d.collective_title, m.fullName)

\* Documents were generated for a group of a male and a record without
\* gender: two members, one of them in the collective title.
C9_Witness ==
    /\ out.alert = "documents generated"
    /\ \E g \in 1..Len(out.docs) :
          LET d == out.docs[g].data
          IN  /\ Len(d.employees) = 2
              /\ \E m \in Members(d.employees) : m.gender = undefined
              /\ d.collective_title = "bAlsyd N1"
              /\ d.computedVar = "AlmEnyyn"

\* The index of the group at which the pass failed.
FailedAt == CHOOSE g \in 1..Len(Groups) : Groups[g].key = out.failedKey

\* The documents downloaded are those of the groups before the failing one.
AbortedAt(k) ==
    /\ Len(out.docs) = k - 1
    /\ \A g \in 1..(k - 1) : out.docs[g].key = Groups[g].key
    /\ out.alert # "documents generated"

\* C10 as stated: a failing pass stops at the failing group, keeps the
\* documents of the groups before it, and reports the key of that group.
C10_AsStated ==
    Failed => /\ AbortedAt(FailedAt)
              /\ Includes(out.alert, out.failedKey)

(* C10  When the renderer fails at a group, the pass stops there: the      *)
(* documents of the groups before it are downloaded and stay, none is made *)
(* for that group or a later one, the success notification is not shown,   *)
(* and the failure shown is the renderer's error message alone, which does *)
(* not name the group.                                                     *)
C10_Abort ==
    Failed => /\ AbortedAt(FailedAt)
              /\ \E message \in ErrorMessages :
                    out.alert = "generation failed: " \o message

\* The pass failed at the second group: the first group's document is out.
C10_Witness ==
    /\ Failed
    /\ Len(Groups) = 2
    /\ FailedAt = 2
    /\ Len(out.docs) = 1

\* No two places of the list hold the same identifier, compared as numbers.
NoDuplicates(list) ==
    \A i \in 1..Len(list) : \A j \in 1..Len(list) :
        i # j => /\ parseInt(list[i].employeeId) # parseInt(list[j].employeeId)
                 /\ parseInt(list[i].employeeId) # NaN

(* C11  In every reachable state no two records of the invited list have   *)
(* the same employeeId, compared as numbers; the persisted list, read      *)
(* back, has none either.                                                  *)
C11_NoDuplicates ==
    /\ NoDuplicates(invitedList)
    /\ NoDuplicates(LoadItem(localStorage.invitedListData))

\* An employee already in a list of two was added again and refused, and
\* the roster in use gives that identifier as text while the list holds it
\* as a number.
C11_Witness ==
    /\ out.alert = "already invited"
    /\ Len(invitedList) = 2
    /\ \E i \in 1..Len(invitedList) : \E k \in 1..Len(employeeData) :
          /\ SameId(invitedList[i].employeeId, employeeData[k].employeeId)
          /\ invitedList[i].employeeId # employeeData[k].employeeId

\* C12 as stated: in every reachable state every record of the invited
\* list has an employeeId, compared as a number, that occurs in the roster
\* in use.
C12_AsStated ==
    \A i \in 1..Len(invitedList) :
        \E k \in 1..Len(employeeData) :
            SameId(invitedList[i].employeeId, employeeData[k].employeeId)

\* One of the four keywords is in the text.
HasKeyword(text) ==
    /\ text # undefined
    /\ \E word \in {"rIys", "rIysp", "wkyl", "wkylp"} : Includes(text, word)

\* The places of the roster in use that match group g: the place, division
\* and city of the group, which are those of its first member, and a
\* keyword in postResponsibility.
Matching(g) ==
    LET first == Groups[g].employees[1]
    IN  {k \in 1..Len(employeeData) :
            /\ employeeData[k].workLocation = first.workLocation
            /\ employeeData[k].division = first.division
            /\ employeeData[k].city = first.city
            /\ HasKeyword(employeeData[k].postResponsibility)}

(* C13  For each group of a generated document the responsible person is   *)
(* the first matching roster record, in roster order: responsibilityLine   *)
(* is that record's honorific and job title whether or not the record is   *)
(* invited, a member who is a later matching record stays in the member    *)
(* list, and without a matching record responsibilityLine is empty and the *)
(* member list is the whole group.                                         *)
C13_FirstMatch ==
    Generated =>
        \A g \in 1..Len(out.docs) :
            LET d       == out.docs[g].data
                members == Groups[g].employees
                hits    == Matching(g)
            IN  IF hits = {}
                THEN /\ d.responsibilityLine = ""
                     /\ d.employees = members
                ELSE LET first == CHOOSE k \in hits : \A h \in hits : k <= h
                         rp    == employeeData[first]
                     IN  /\ d.responsibilityLine =
                               (IF rp.gender = "Alsydp" THEN "Alsydp " ELSE "Alsyd ")
                                  \o (IF rp.jobTitle = undefined THEN "undefined"
                                      ELSE rp.jobTitle)
                         /\ \A k \in hits \ {first} :
                               \A j \in 1..Len(members) :
                                  members[j].employeeId = employeeData[k].employeeId
                                     => members[j] \in Members(d.employees)

\* A document was made for a group with two matching roster records: the
\* first is not invited and gives the line, the second is a member and is
\* in the document.
C13_Witness ==
    /\ Generated
    /\ \E g \in 1..Len(out.docs) :
          LET hits == Matching(g)
          IN  /\ Cardinality(hits) = 2
              /\ \A k \in hits :
                    (\A h \in hits : k <= h)
                       => employeeData[k] \notin Members(invitedList)
              /\ \E k \in hits :
                    employeeData[k] \in Members(out.docs[g].data.employees)
              /\ out.docs[g].data.responsibilityLine = "Alsydp AlqADyp b"

\* The rows whose identifier, compared as a number, is that of a roster
\* employee and is in no earlier row.
FirstOccurrences(roster, rows) ==
    {i \in 1..Len(rows) :
        /\ \E k \in 1..Len(roster) : SameId(roster[k].employeeId, rows[i])
        /\ \A j \in 1..(i - 1) : ~SameId(rows[j], rows[i])}

\* The roster employees the rows from i on name, in first-occurrence order.
RECURSIVE MatchedFrom(_, _, _)
MatchedFrom(roster, rows, i) ==
    IF i > Len(rows) THEN <<>>
    ELSE IF i \in FirstOccurrences(roster, rows)
         THEN <<CHOOSE e \in Members(roster) : SameId(e.employeeId, rows[i])>>
                 \o MatchedFrom(roster, rows, i + 1)
         ELSE MatchedFrom(roster, rows, i + 1)

\* C14 as stated: an Excel import whose identifiers match a roster employee
\* and that the user confirms makes the invited list the matched roster
\* employees, in first-occurrence order and each once, and persists it; an
\* import that is declined, matches nobody or fails leaves the invited list
\* and its persisted copy as they were.
C14_AsStated ==
    [][ /\ \A rows \in ExcelFiles, confirmed \in BOOLEAN :
              ExcelRead(rows, confirmed) =>
                 LET matched == MatchedFrom(employeeData, rows, 1)
                 IN  IF matched # <<>> /\ confirmed
                     THEN /\ invitedList' = matched
                          /\ localStorage'.invitedListData.set
                          /\ LoadItem(localStorage'.invitedListData) = invitedList'
                     ELSE UNCHANGED <<invitedList, localStorage>>
        /\ out'.alert \in {"excel library missing", "excel processing failed"}
              => UNCHANGED <<invitedList, localStorage>>
      ]_vars

=============================================================================
